---------------------------- MODULE Spec2Model ----------------------------
(***************************************************************************)
(* Model of the product CRUD service (src/src/api/models/product.py and    *)
(* src/src/api/routes/products.py) over its relational store.              *)
(*                                                                         *)
(* Strings are TLA+ strings, so len() is Len and the `in` substring test   *)
(* of the handlers is computed on the characters.  An Optional value is    *)
(* None (<<>>) or Some(v) (<<v>>).  A request payload is a record whose    *)
(* DOMAIN is the set of fields the client sent (pydantic's "set" fields);  *)
(* a field sent as JSON null maps to None.  Decimals with up to three      *)
(* decimal places are integers counting thousandths.                       *)
(***************************************************************************)
EXTENDS Integers, Sequences, FiniteSets, TLC

VARIABLES
    store,       \* SalesLT.Product: ProductID -> row
    nextId,      \* next value of the ProductID identity column
    nextGuid,    \* number of uuid4() tokens drawn so far
    now,         \* datetime.now(timezone.utc)
    orderLines,  \* ProductID -> number of SalesOrderDetail rows referencing it
    steps,       \* number of requests received (bounds the exploration)
    last,        \* the last step: the request and the response it got
    sessions,    \* per worker: the request it is handling and the row loaded
    engine,      \* connection.py: the module global _engine
    engines,     \* number of engines create_engine has built in the process
    reachable,   \* whether the database server answers
    loggers,     \* the logging registry: logger name -> level and handlers
    threads      \* per thread: the call it is in and its position there

\* The process around the handlers: engine, logging, threads, the server.
infra == <<engine, engines, reachable, loggers, threads>>

vars ==
    <<store, nextId, nextGuid, now, orderLines, steps, last, sessions, infra>>

---------------------------------------------------------------------------
(* Bounds of the exploration.                                              *)

MaxSteps == 3
MaxClock == 2
MaxOrderLines == 1
MaxProductId == 2
MaxWeight == 1000

---------------------------------------------------------------------------
(* Optional values and strings.                                            *)

None == <<>>
Some(v) == <<v>>
IsNone(o) == o = <<>>
Val(o) == o[1]

RECURSIVE Pad(_, _)
\* s filled up with "x" to n characters (s itself when it is longer).
Pad(s, n) == IF Len(s) >= n THEN s ELSE Pad(s \o "x", n)

\* Python's `sub in s` on strings.
Contains(s, sub) ==
    \E i \in 1..(Len(s) - Len(sub) + 1) : SubSeq(s, i, i + Len(sub) - 1) = sub

\* The field of a payload, None when the client did not send it.
Get(p, f) == IF f \in DOMAIN p THEN p[f] ELSE None

---------------------------------------------------------------------------
(* product.py: the schemas.                                                *)

ProductSize ==
    {"XS", "S", "M", "L", "38", "40", "42", "44", "46", "48", "50", "52",
     "54", "56", "58", "60", "62", "70"}

ProductBaseFields ==
    {"Name", "ProductNumber", "Color", "StandardCost", "ListPrice", "Size",
     "Weight", "SellStartDate", "SellEndDate", "DiscontinuedDate",
     "ThumbNailPhoto", "ThumbnailPhotoFileName", "ProductModelID",
     "ProductCategoryID"}

\* The fields of ProductBase without a default: pydantic requires a value.
RequiredFields ==
    {"Name", "ProductNumber", "StandardCost", "ListPrice", "SellStartDate"}

ProductUpdateFields ==
    {"Name", "ProductNumber", "Color", "StandardCost", "ListPrice", "Size",
     "Weight", "SellStartDate", "SellEndDate", "DiscontinuedDate",
     "ProductModelID", "ProductCategoryID"}

ProductReadFields ==
    {"ProductID", "Name", "ProductNumber", "Color", "StandardCost",
     "ListPrice", "Size", "Weight", "SellStartDate", "SellEndDate",
     "DiscontinuedDate", "ThumbnailPhotoFileName", "ProductModelID",
     "ProductCategoryID", "ModifiedDate", "rowguid"}

NameMaxLen == 100
ProductNumberMaxLen == 50
ColorMaxLen == 30
PhotoFileNameMaxLen == 100

\* A validator's outcome: the value it returns, or a ValueError.
Ok(v) == [ok |-> TRUE, value |-> v]
Err == [ok |-> FALSE, value |-> None]

\* validate_name with the comparison off by one.
validate_name_at_limit(v) == IF Len(v) >= NameMaxLen THEN Err ELSE Ok(v)

validate_name(v) == IF Len(v) > NameMaxLen THEN Err ELSE Ok(v)

validate_product_number(v) ==
    IF Len(v) > ProductNumberMaxLen THEN Err ELSE Ok(v)

validate_color(v) ==
    IF v # None /\ Len(Val(v)) > ColorMaxLen THEN Err ELSE Ok(v)

validate_photo_filename(v) ==
    IF v # None /\ Len(Val(v)) > PhotoFileNameMaxLen THEN Err ELSE Ok(v)

\* A rounding that always moves to the next multiple of 0.01.
Quantize_next_cent(w) == (w \div 10 + 1) * 10

\* Decimal.quantize(Decimal('0.01')) under the default context
\* (ROUND_HALF_EVEN), on thousandths: the result is a multiple of 10.
Quantize(w) ==
    LET q == w \div 10
        r == w % 10
    IN  IF r < 5 THEN q * 10
        ELSE IF r > 5 THEN (q + 1) * 10
        ELSE IF q % 2 = 0 THEN q * 10 ELSE (q + 1) * 10

validate_weight(v) == IF v # None THEN Ok(Some(Quantize(Val(v)))) ELSE Ok(v)

\* Size: Optional[ProductSize]: pydantic accepts None or a member's value.
validate_size(v) == IF v # None /\ Val(v) \notin ProductSize THEN Err ELSE Ok(v)

\* One field of a ProductCreate body: the required check, then the
\* field's validator.
CreateField(p, f) ==
    LET v == Get(p, f) IN
    IF f \in RequiredFields /\ IsNone(v) THEN Err
    ELSE IF f = "Name" THEN
        (LET r == validate_name(Val(v)) IN [r EXCEPT !.value = Some(r.value)])
    ELSE IF f = "ProductNumber" THEN
        (LET r == validate_product_number(Val(v))
         IN [r EXCEPT !.value = Some(r.value)])
    ELSE IF f = "Color" THEN validate_color(v)
    ELSE IF f = "ThumbnailPhotoFileName" THEN validate_photo_filename(v)
    ELSE IF f = "Weight" THEN validate_weight(v)
    ELSE IF f = "Size" THEN validate_size(v)
    ELSE Ok(v)

\* Parsing a request body as ProductCreate: the fields in error (a 422 when
\* there are any) and model_dump() of the parsed body.  Fields the schema
\* does not declare are ignored.
ValidateCreate(p) ==
    LET errors == {f \in ProductBaseFields : ~CreateField(p, f).ok} IN
    [ok |-> errors = {},
     errors |-> errors,
     data |-> [f \in ProductBaseFields |-> CreateField(p, f).value]]

\* A ProductUpdate that also declares rowguid.
ValidateUpdate_declares_rowguid(p) ==
    LET sent == DOMAIN p \cap (ProductUpdateFields \cup {"rowguid"}) IN
    [ok |-> TRUE,
     errors |-> {},
     data |-> [f \in sent |-> p[f]]]

\* Parsing a request body as ProductUpdate: every field is Optional and the
\* class declares no validator; model_dump(exclude_unset=True) keeps the
\* fields the client sent, among those the schema declares.
ValidateUpdate(p) ==
    LET sent == DOMAIN p \cap ProductUpdateFields IN
    [ok |-> TRUE,
     errors |-> {},
     data |-> [f \in sent |-> p[f]]]

---------------------------------------------------------------------------
(* The store: table SalesLT.Product of the SQL Server database the engine  *)
(* connects to, with the constraints the Product table model declares and  *)
(* the named constraints the handlers look for.                            *)

SystemFields == {"ProductID", "rowguid", "ModifiedDate"}
RowFields == ProductBaseFields \cup SystemFields

\* Rows of SalesLT.ProductModel and SalesLT.ProductCategory (the ids of the
\* schema's example payload).
ProductModelIDs == {19}
ProductCategoryIDs == {6}

When(c, S) == IF c THEN S ELSE {}

\* str(e.orig) of the IntegrityError the driver raises for a violated
\* unique constraint: SQL Server names the constraint and echoes the
\* duplicate key value.
UniqueMessage(constraint, key) ==
    "Violation of UNIQUE KEY constraint '" \o constraint
        \o "'. Cannot insert duplicate key in object 'SalesLT.Product'."
        \o " The duplicate key value is (" \o key \o ")."

NotNullMessage(f) ==
    "Cannot insert the value NULL into column '" \o f
        \o "', table 'SalesLT.Product'; column does not allow nulls."

ForeignKeyMessage(constraint) ==
    "The statement conflicted with the FOREIGN KEY constraint '"
        \o constraint \o "'."

ReferenceMessage(constraint) ==
    "The DELETE statement conflicted with the REFERENCE constraint '"
        \o constraint \o "'."

\* A store without the unique constraint on Name.
WriteErrors_no_unique_name(id, row) ==
    LET others == {store[i] : i \in DOMAIN store \ {id}} IN
    When(\E f \in RequiredFields : IsNone(row[f]),
         {NotNullMessage(f) : f \in {g \in RequiredFields : IsNone(row[g])}})
    \cup
    When(~IsNone(row.ProductNumber)
            /\ \E o \in others : o.ProductNumber = row.ProductNumber,
         {UniqueMessage("AK_Product_ProductNumber", Val(row.ProductNumber))})

\* A store whose columns all allow NULL.
WriteErrors_nullable(id, row) ==
    LET others == {store[i] : i \in DOMAIN store \ {id}} IN
    When(~IsNone(row.Name) /\ \E o \in others : o.Name = row.Name,
         {UniqueMessage("AK_Product_Name", Val(row.Name))})
    \cup
    When(~IsNone(row.ProductNumber)
            /\ \E o \in others : o.ProductNumber = row.ProductNumber,
         {UniqueMessage("AK_Product_ProductNumber", Val(row.ProductNumber))})

\* The IntegrityError messages the store can answer a write of `row` as
\* product `id` with (it reports one violated constraint); none when the
\* write commits.
WriteErrors(id, row) ==
    LET others == {store[i] : i \in DOMAIN store \ {id}} IN
    When(\E f \in RequiredFields : IsNone(row[f]),
         {NotNullMessage(f) : f \in {g \in RequiredFields : IsNone(row[g])}})
    \cup
    When(~IsNone(row.Name) /\ \E o \in others : o.Name = row.Name,
         {UniqueMessage("AK_Product_Name", Val(row.Name))})
    \cup
    When(~IsNone(row.ProductNumber)
            /\ \E o \in others : o.ProductNumber = row.ProductNumber,
         {UniqueMessage("AK_Product_ProductNumber", Val(row.ProductNumber))})
    \cup
    When(~IsNone(row.ProductModelID)
            /\ Val(row.ProductModelID) \notin ProductModelIDs,
         {ForeignKeyMessage("FK_Product_ProductModel_ProductModelID")})
    \cup
    When(~IsNone(row.ProductCategoryID)
            /\ Val(row.ProductCategoryID) \notin ProductCategoryIDs,
         {ForeignKeyMessage("FK_Product_ProductCategory_ProductCategoryID")})

\* The IntegrityError messages the store can answer a DELETE of product
\* `id` with.
DeleteErrors(id) ==
    When(orderLines[id] > 0,
         {ReferenceMessage("FK_SalesOrderDetail_Product_ProductID")})

\* Loading a row into a Product instance (session.get, session.refresh):
\* the Size column's Enum type raises LookupError for a stored string that
\* is no member of ProductSize.
Loadable(row) == IsNone(row.Size) \/ Val(row.Size) \in ProductSize

\* A ProductRead that also declares ThumbNailPhoto.
ProductRead_with_photo(row) ==
    [f \in ProductReadFields \cup {"ThumbNailPhoto"} |-> row[f]]

\* Serialisation of a Product as the response_model ProductRead.
ProductRead(row) == [f \in ProductReadFields |-> row[f]]

---------------------------------------------------------------------------
(* routes/products.py: the handlers.  `last` records the request and the   *)
(* response: status, the kind of outcome, the detail string, the fields in *)
(* error of a 422 and the entity returned.                                 *)

Response(op, id, payload, status, kind, detail, errors, body) ==
    [op |-> op, id |-> id, payload |-> payload, status |-> status,
     kind |-> kind, detail |-> detail, errors |-> errors, body |-> body]

\* str() of an Optional[str] inside an f-string.
PyStr(o) == IF IsNone(o) THEN "None" ELSE Val(o)

\* An exception no handler catches: get_session logs and re-raises it and
\* the framework answers 500.
Unhandled(op, id, payload) ==
    Response(op, id, payload, 500, "InternalError", "Internal Server Error",
             {}, None)

\* A lookup that raises for a missing row instead of returning None.
NotFound_raises(op, id, payload) == Unhandled(op, id, payload)

\* The 404 the handlers raise when session.get returns None.
NotFound(op, id, payload) ==
    Response(op, id, payload, 404, "NotFound",
             "Product with ID " \o ToString(id) \o " not found", {}, None)

\* A handler that passes the store's message on for a constraint it does
\* not know.
ClassifyWrite_leaks(msg, name, number) ==
    IF Contains(msg, "AK_Product_Name") THEN
        [status |-> 409, kind |-> "DuplicateName",
         detail |-> "A product with the name '" \o PyStr(name)
                        \o "' already exists."]
    ELSE IF Contains(msg, "AK_Product_ProductNumber") THEN
        [status |-> 409, kind |-> "DuplicateNumber",
         detail |-> "A product with the product number '" \o PyStr(number)
                        \o "' already exists."]
    ELSE
        [status |-> 500, kind |-> "UnknownConstraintViolation",
         detail |-> msg]

\* The except IntegrityError branch of create_product and update_product:
\* the outcome is chosen by substring tests on the store's message, Name and
\* ProductNumber being those of the request body.
ClassifyWrite(msg, name, number) ==
    IF Contains(msg, "AK_Product_Name") THEN
        [status |-> 409, kind |-> "DuplicateName",
         detail |-> "A product with the name '" \o PyStr(name)
                        \o "' already exists."]
    ELSE IF Contains(msg, "AK_Product_ProductNumber") THEN
        [status |-> 409, kind |-> "DuplicateNumber",
         detail |-> "A product with the product number '" \o PyStr(number)
                        \o "' already exists."]
    ELSE
        [status |-> 500, kind |-> "UnknownConstraintViolation",
         detail |-> "An unexpected database constraint violation occurred."]

\* The except IntegrityError branch of delete_product.
ClassifyDelete(msg) ==
    IF Contains(msg, "FK_SalesOrderDetail_Product_ProductID") THEN
        [status |-> 409, kind |-> "HasDependentOrders",
         detail |-> "Cannot delete product as it has associated sales orders"]
    ELSE
        [status |-> 500, kind |-> "UnknownConstraintViolation",
         detail |-> "An unexpected error occurred while deleting the product"]

\* The clock readings a request arriving now can see.
Times == {t \in {now, now + 1} : t <= MaxClock}

\* A request is handled at time t.
Arrive(t) ==
    /\ steps < MaxSteps
    /\ steps' = steps + 1
    /\ t \in Times
    /\ now' = t

\* create_product giving every product the same rowguid.
NewProduct_fixed_rowguid(data, t) ==
    [f \in RowFields |->
        IF f = "ProductID" THEN nextId
        ELSE IF f = "rowguid" THEN 1
        ELSE IF f = "ModifiedDate" THEN t
        ELSE data[f]]

\* The Product instance create_product builds from the parsed body.
NewProduct(data, t) ==
    [f \in RowFields |->
        IF f = "ProductID" THEN nextId
        ELSE IF f = "rowguid" THEN nextGuid + 1
        ELSE IF f = "ModifiedDate" THEN t
        ELSE data[f]]

\* update_product stamping a new rowguid as create_product does.
UpdatedProduct_new_rowguid(row, data, t) ==
    [f \in RowFields |->
        IF f = "ModifiedDate" THEN t
        ELSE IF f = "rowguid" THEN nextGuid + 1
        ELSE IF f \in DOMAIN data THEN data[f]
        ELSE row[f]]

\* update_product leaving ModifiedDate as it is.
UpdatedProduct_keeps_date(row, data, t) ==
    [f \in RowFields |-> IF f \in DOMAIN data THEN data[f] ELSE row[f]]

\* The row update_product writes: the fields of the body set on the loaded
\* instance, then ModifiedDate.
UpdatedProduct(row, data, t) ==
    [f \in RowFields |->
        IF f = "ModifiedDate" THEN t
        ELSE IF f \in DOMAIN data THEN data[f]
        ELSE row[f]]

get_product(id, t) ==
    /\ Arrive(t)
    /\ last' = IF id \notin DOMAIN store THEN NotFound("get", id, <<>>)
               ELSE IF ~Loadable(store[id]) THEN Unhandled("get", id, <<>>)
               ELSE Response("get", id, <<>>, 200, "OK", "", {},
                             Some(ProductRead(store[id])))
    /\ UNCHANGED <<store, nextId, nextGuid, orderLines, sessions, infra>>

RECURSIVE OrderBy(_)
\* ORDER BY ProductID: the ids in ascending order.
OrderBy(ids) ==
    IF ids = {} THEN <<>>
    ELSE LET m == CHOOSE i \in ids : \A j \in ids : i <= j
         IN  <<m>> \o OrderBy(ids \ {m})

\* OFFSET skip ROWS FETCH FIRST limit ROWS ONLY.
Page(seq, skip, limit) ==
    [k \in 1..(IF Len(seq) - skip < limit THEN Len(seq) - skip ELSE limit)
        |-> seq[skip + k]]

\* The statement is select(Product).order_by(ProductID).offset(skip)
\* .limit(limit); with an offset the SQL Server dialect renders OFFSET and
\* FETCH, and the server refuses a FETCH of less than one row (the error
\* is no IntegrityError and nothing catches it).  Every row of the page is
\* loaded into a Product.
list_products(skip, limit, t) ==
    LET ids == Page(OrderBy(DOMAIN store), skip, limit)
        request == [skip |-> skip, limit |-> limit]
    IN
    /\ Arrive(t)
    /\ last' = IF limit < 1 THEN Unhandled("list", 0, request)
               ELSE IF \E k \in DOMAIN ids : ~Loadable(store[ids[k]])
               THEN Unhandled("list", 0, request)
               ELSE Response("list", 0, request, 200, "OK", "", {},
                             Some([k \in DOMAIN ids |->
                                      ProductRead(store[ids[k]])]))
    /\ UNCHANGED <<store, nextId, nextGuid, orderLines, sessions, infra>>

create_product(p, t) ==
    LET v == ValidateCreate(p)
        row == NewProduct(v.data, t)
        errs == WriteErrors(nextId, row)
    IN
    /\ Arrive(t)
    /\ UNCHANGED <<sessions, infra>>
    /\ IF ~v.ok THEN
           /\ last' = Response("create", 0, p, 422, "ValidationError", "",
                               v.errors, None)
           /\ UNCHANGED <<store, nextId, nextGuid, orderLines>>
       ELSE
           /\ nextGuid' = nextGuid + 1
           /\ IF errs = {} THEN
                  /\ store' = store @@ (nextId :> row)
                  /\ orderLines' = orderLines @@ (nextId :> 0)
                  /\ nextId' = nextId + 1
                  /\ last' = IF ~Loadable(row)
                             THEN Unhandled("create", nextId, p)
                             ELSE Response("create", nextId, p, 201, "OK", "",
                                           {}, Some(ProductRead(row)))
              ELSE
                  /\ \E msg \in errs :
                        LET c == ClassifyWrite(msg, v.data.Name,
                                               v.data.ProductNumber)
                        IN last' = Response("create", 0, p, c.status, c.kind,
                                            c.detail, {}, None)
                  /\ UNCHANGED <<store, nextId, orderLines>>

update_product(id, p, t) ==
    LET v == ValidateUpdate(p)
        row == UpdatedProduct(store[id], v.data, t)
        errs == WriteErrors(id, row)
    IN
    /\ Arrive(t)
    /\ UNCHANGED <<nextId, nextGuid, orderLines, sessions, infra>>
    /\ IF id \notin DOMAIN store THEN
           /\ last' = NotFound("update", id, p)
           /\ UNCHANGED store
       ELSE IF ~Loadable(store[id]) THEN
           /\ last' = Unhandled("update", id, p)
           /\ UNCHANGED store
       ELSE IF errs = {} THEN
           /\ store' = [store EXCEPT ![id] = row]
           /\ last' = IF ~Loadable(row) THEN Unhandled("update", id, p)
                      ELSE Response("update", id, p, 200, "OK", "", {},
                                    Some(ProductRead(row)))
       ELSE
           /\ \E msg \in errs :
                 LET c == ClassifyWrite(msg, Get(p, "Name"),
                                        Get(p, "ProductNumber"))
                 IN last' = Response("update", id, p, c.status, c.kind,
                                     c.detail, {}, None)
           /\ UNCHANGED store

delete_product(id, t) ==
    /\ Arrive(t)
    /\ UNCHANGED <<nextId, nextGuid, sessions, infra>>
    /\ IF id \notin DOMAIN store THEN
           /\ last' = NotFound("delete", id, <<>>)
           /\ UNCHANGED <<store, orderLines>>
       ELSE IF ~Loadable(store[id]) THEN
           /\ last' = Unhandled("delete", id, <<>>)
           /\ UNCHANGED <<store, orderLines>>
       ELSE IF DeleteErrors(id) = {} THEN
           /\ store' = [i \in DOMAIN store \ {id} |-> store[i]]
           /\ orderLines' = [i \in DOMAIN store \ {id} |-> orderLines[i]]
           /\ last' = Response("delete", id, <<>>, 204, "OK", "", {}, None)
       ELSE
           /\ \E msg \in DeleteErrors(id) :
                 LET c == ClassifyDelete(msg)
                 IN last' = Response("delete", id, <<>>, c.status, c.kind,
                                     c.detail, {}, None)
           /\ UNCHANGED <<store, orderLines>>

\* Another client of the database records a sales-order line for a product.
AddOrderLine(id) ==
    /\ steps < MaxSteps
    /\ steps' = steps + 1
    /\ id \in DOMAIN store
    /\ orderLines[id] < MaxOrderLines
    /\ orderLines' = [orderLines EXCEPT ![id] = @ + 1]
    /\ last' = Response("order", id, <<>>, 0, "", "", {}, None)
    /\ UNCHANGED <<store, nextId, nextGuid, now, sessions, infra>>

---------------------------------------------------------------------------
(* The requests explored.                                                  *)

\* The ids requests address.
ProductIds == 1..MaxProductId

\* The skip and limit parameters of list requests; limit defaults to 100.
Skips == {0, 1, 2}
Limits == {0, 1, 100}

LongName == Pad("Long", NameMaxLen + 1)

Body(name, number) ==
    [Name |-> Some(name), ProductNumber |-> Some(number),
     StandardCost |-> Some(1000), ListPrice |-> Some(2000),
     SellStartDate |-> Some(1)]

\* POST bodies: a full product that also carries values for the system
\* fields, products that share its Name or its
\* ProductNumber, two products whose common ProductNumber reads like a
\* constraint identifier, a Name one character too long, and a product of
\* a category that does not exist.
CreateBodies ==
    { Body("Widget", "W-1") @@
        [Color |-> Some("Silver"), Size |-> Some("38"), Weight |-> Some(22505),
         ThumbNailPhoto |-> Some("bytes"),
         ThumbnailPhotoFileName |-> Some("widget.jpg"),
         ProductModelID |-> Some(19), ProductCategoryID |-> Some(6),
         ProductID |-> 7, rowguid |-> 7, ModifiedDate |-> 9],
      Body("Widget", "W-2"),
      Body("Gadget", "W-1"),
      Body("Gadget", "AK_Product_Name"),
      Body("Gizmo", "AK_Product_Name"),
      Body(LongName, "W-3"),
      Body("Gizmo", "W-4") @@ [ProductCategoryID |-> Some(7)] }

\* PUT bodies: empty, a Name, a ProductNumber, a ProductNumber that reads
\* like a constraint identifier, a Size outside ProductSize, a null Name,
\* and several fields at once, two of them not fields of ProductUpdate.
UpdateBodies ==
    { <<>>,
      [Name |-> Some("Widget")],
      [ProductNumber |-> Some("W-1")],
      [ProductNumber |-> Some("AK_Product_Name")],
      [Size |-> Some("XXL")],
      [Name |-> None],
      [Color |-> Some("Red"), Weight |-> Some(1234), Size |-> None,
       ThumbNailPhoto |-> Some("other"), rowguid |-> 9] }

---------------------------------------------------------------------------
(* The service: requests handled one at a time against the store.          *)

NoResponse == Response("init", 0, <<>>, 0, "", "", {}, None)

\* The processes serving requests, each on a session of its own.
Workers == {"w1", "w2"}

\* A worker with no request in hand.
Idle == [op |-> "idle"]

\* The threads of one process: the request threads of the thread pool.
Threads == {"t1", "t2"}

\* The process before its first call of get_engine and of setup_logger, the
\* server answering.
InitInfra ==
    /\ engine = None
    /\ engines = 0
    /\ reachable = TRUE
    /\ loggers = <<>>
    /\ threads = [t \in Threads |-> Idle]

Init ==
    /\ InitInfra
    /\ store = <<>>
    /\ nextId = 1
    /\ nextGuid = 0
    /\ now = 0
    /\ orderLines = <<>>
    /\ steps = 0
    /\ last = NoResponse
    /\ sessions = [w \in Workers |-> Idle]

Next ==
    \/ \E id \in ProductIds, t \in Times : get_product(id, t)
    \/ \E skip \in Skips, limit \in Limits, t \in Times :
          list_products(skip, limit, t)
    \/ \E p \in CreateBodies, t \in Times : create_product(p, t)
    \/ \E id \in ProductIds, p \in UpdateBodies, t \in Times :
          update_product(id, p, t)
    \/ \E id \in ProductIds, t \in Times : delete_product(id, t)
    \/ \E id \in ProductIds : AddOrderLine(id)

Spec == Init /\ [][Next]_vars

---------------------------------------------------------------------------
(* Validation alone: one request body is parsed as ProductCreate and as    *)
(* ProductUpdate.                                                          *)

NameLengths == {0, 1, NameMaxLen - 1, NameMaxLen, NameMaxLen + 1, NameMaxLen + 50}
NumberLengths ==
    {0, 1, ProductNumberMaxLen - 1, ProductNumberMaxLen,
     ProductNumberMaxLen + 1, ProductNumberMaxLen + 50}
ColorLengths == {0, ColorMaxLen, ColorMaxLen + 1}

\* Bodies that send or leave out Name, ProductNumber, Color and Size, with
\* lengths around each limit and Size values in and out of ProductSize.
ValidationBodies ==
    { name @@ number @@ color @@ size @@
        [StandardCost |-> Some(1000), ListPrice |-> Some(2000),
         SellStartDate |-> Some(1)] :
      name \in {<<>>, [Name |-> None]}
                \cup {[Name |-> Some(Pad("", n))] : n \in NameLengths},
      number \in {<<>>, [ProductNumber |-> None]}
                \cup {[ProductNumber |-> Some(Pad("", n))] : n \in NumberLengths},
      color \in {<<>>, [Color |-> None]}
                \cup {[Color |-> Some(Pad("", n))] : n \in ColorLengths},
      size \in {<<>>, [Size |-> None], [Size |-> Some("M")],
                [Size |-> Some("70")], [Size |-> Some("XXL")],
                [Size |-> Some("m")]} }

validate(p) ==
    /\ last = NoResponse
    /\ last' = [op |-> "validate", payload |-> p,
                create |-> ValidateCreate(p), update |-> ValidateUpdate(p)]
    /\ UNCHANGED <<store, nextId, nextGuid, now, orderLines, steps, sessions, infra>>

NextValidate == \E p \in ValidationBodies : validate(p)

SpecValidate == Init /\ [][NextValidate]_vars

---------------------------------------------------------------------------
(* The Weight validator alone, applied to a weight and to its own result.  *)

\* Weights of up to three decimal places between -MaxWeight and MaxWeight
\* thousandths, and no weight.
Weights == {None} \cup {Some(w) : w \in -MaxWeight..MaxWeight}

normalize(v) ==
    /\ last = NoResponse
    /\ last' = [op |-> "normalize", weight |-> v,
                once |-> validate_weight(v),
                twice |-> validate_weight(validate_weight(v).value)]
    /\ UNCHANGED <<store, nextId, nextGuid, now, orderLines, steps, sessions, infra>>

NextWeight == \E v \in Weights : normalize(v)

SpecWeight == Init /\ [][NextWeight]_vars

---------------------------------------------------------------------------
(* Concurrent requests: several worker processes serve requests, each in   *)
(* a session and transaction of its own (READ COMMITTED).  create_product  *)
(* is one INSERT; update_product and delete_product first load the row     *)
(* (session.get) and write at commit, and other workers' requests can      *)
(* commit in between.                                                      *)

\* A product as create_product stored it at time 0.
Seeded(id, body) ==
    [f \in RowFields |->
        IF f \in {"ProductID", "rowguid"} THEN id
        ELSE IF f = "ModifiedDate" THEN 0
        ELSE ValidateCreate(body).data[f]]

\* POST bodies of the concurrent requests: one Name with a stored and a new
\* ProductNumber, and two Names with one ProductNumber that reads like a
\* constraint identifier.
ConcCreateBodies ==
    {Body("Gizmo", "W-1"), Body("Gizmo", "W-3"),
     Body("Gizmo", "AK_Product_Name"), Body("Gyro", "AK_Product_Name")}

ConcUpdateBodies ==
    {<<>>, [Name |-> Some("Gizmo")], [Name |-> Some("Widget")],
     [ProductNumber |-> Some("W-3")]}

\* update_product up to session.get.
begin_update(w, id, p) ==
    /\ sessions[w] = Idle
    /\ steps < MaxSteps
    /\ steps' = steps + 1
    /\ UNCHANGED <<store, nextId, nextGuid, now, orderLines, infra>>
    /\ IF id \notin DOMAIN store THEN
           /\ last' = NotFound("update", id, p)
           /\ UNCHANGED sessions
       ELSE IF ~Loadable(store[id]) THEN
           /\ last' = Unhandled("update", id, p)
           /\ UNCHANGED sessions
       ELSE
           /\ sessions' = [sessions EXCEPT ![w] =
                             [op |-> "update", id |-> id, payload |-> p,
                              loaded |-> store[id]]]
           /\ UNCHANGED last

\* update_product from the setattr loop on: the UPDATE carries the
\* attributes whose value differs from the one loaded, and ModifiedDate;
\* it raises StaleDataError when the row is gone.
commit_update(w, t) ==
    LET s == sessions[w]
        v == ValidateUpdate(s.payload)
        changed == {f \in DOMAIN v.data : v.data[f] # s.loaded[f]}
        row == UpdatedProduct(store[s.id], [f \in changed |-> v.data[f]], t)
        errs == WriteErrors(s.id, row)
    IN
    /\ s.op = "update"
    /\ t \in Times
    /\ now' = t
    /\ sessions' = [sessions EXCEPT ![w] = Idle]
    /\ UNCHANGED <<nextId, nextGuid, orderLines, steps, infra>>
    /\ IF s.id \notin DOMAIN store THEN
           /\ last' = Unhandled("update", s.id, s.payload)
           /\ UNCHANGED store
       ELSE IF errs = {} THEN
           /\ store' = [store EXCEPT ![s.id] = row]
           /\ last' = IF ~Loadable(row)
                      THEN Unhandled("update", s.id, s.payload)
                      ELSE Response("update", s.id, s.payload, 200, "OK", "",
                                    {}, Some(ProductRead(row)))
       ELSE
           /\ \E msg \in errs :
                 LET c == ClassifyWrite(msg, Get(s.payload, "Name"),
                                        Get(s.payload, "ProductNumber"))
                 IN last' = Response("update", s.id, s.payload, c.status,
                                     c.kind, c.detail, {}, None)
           /\ UNCHANGED store

\* delete_product up to session.get.
begin_delete(w, id) ==
    /\ sessions[w] = Idle
    /\ steps < MaxSteps
    /\ steps' = steps + 1
    /\ UNCHANGED <<store, nextId, nextGuid, now, orderLines, infra>>
    /\ IF id \notin DOMAIN store THEN
           /\ last' = NotFound("delete", id, <<>>)
           /\ UNCHANGED sessions
       ELSE IF ~Loadable(store[id]) THEN
           /\ last' = Unhandled("delete", id, <<>>)
           /\ UNCHANGED sessions
       ELSE
           /\ sessions' = [sessions EXCEPT ![w] =
                             [op |-> "delete", id |-> id, payload |-> <<>>,
                              loaded |-> store[id]]]
           /\ UNCHANGED last

\* delete_product from session.delete on: a DELETE that matches no row is
\* only warned about and the commit succeeds.
commit_delete(w) ==
    LET s == sessions[w] IN
    /\ s.op = "delete"
    /\ sessions' = [sessions EXCEPT ![w] = Idle]
    /\ UNCHANGED <<nextId, nextGuid, now, steps, infra>>
    /\ IF s.id \notin DOMAIN store THEN
           /\ last' = Response("delete", s.id, <<>>, 204, "OK", "", {}, None)
           /\ UNCHANGED <<store, orderLines>>
       ELSE IF DeleteErrors(s.id) = {} THEN
           /\ store' = [i \in DOMAIN store \ {s.id} |-> store[i]]
           /\ orderLines' = [i \in DOMAIN store \ {s.id} |-> orderLines[i]]
           /\ last' = Response("delete", s.id, <<>>, 204, "OK", "", {}, None)
       ELSE
           /\ \E msg \in DeleteErrors(s.id) :
                 LET c == ClassifyDelete(msg)
                 IN last' = Response("delete", s.id, <<>>, c.status, c.kind,
                                     c.detail, {}, None)
           /\ UNCHANGED <<store, orderLines>>

InitConc ==
    /\ InitInfra
    /\ store = (1 :> Seeded(1, Body("Widget", "W-1")))
                  @@ (2 :> Seeded(2, Body("Gadget", "W-2")))
    /\ nextId = 3
    /\ nextGuid = 2
    /\ now = 0
    /\ orderLines = (1 :> 0) @@ (2 :> 0)
    /\ steps = 0
    /\ last = NoResponse
    /\ sessions = [w \in Workers |-> Idle]

NextConc ==
    \/ \E p \in ConcCreateBodies, t \in Times : create_product(p, t)
    \/ \E w \in Workers, id \in ProductIds, p \in ConcUpdateBodies :
          begin_update(w, id, p)
    \/ \E w \in Workers, t \in Times : commit_update(w, t)
    \/ \E w \in Workers, id \in ProductIds : begin_delete(w, id)
    \/ \E w \in Workers : commit_delete(w)

SpecConc == InitConc /\ [][NextConc]_vars

---------------------------------------------------------------------------
(* The process around the handlers (connection.py, utils.py, main.py):     *)
(* threads of one process call get_engine on their way to a session, as    *)
(* the get_session dependency of a product request, in                     *)
(* verify_database_connection or in inspect_table_structure, while the     *)
(* server comes and goes.  A thread can be preempted between any two       *)
(* statements of get_engine.                                               *)

\* The exception classes that occur; all but the last derive from
\* Exception.
ExceptionClasses ==
    {"OperationalError", "ValueError", "HTTPException", "KeyboardInterrupt"}

\* `except Exception` catching nothing but ValueError.
Caught_value_error_only(e) == e = "ValueError"

\* `except Exception`.
Caught(e) == e \in ExceptionClasses \ {"KeyboardInterrupt"}

\* str(e) of the error the driver raises when the server does not answer.
ConnectionMessage ==
    "(pyodbc.OperationalError) ('HYT00', 'Login timeout expired')"

\* sys.tables and sys.columns of the database: schema -> table -> columns.
Catalog ==
    [SalesLT |->
        [Product |-> <<"ProductID", "Name", "Weight">>,
         ProductModel |-> <<"ProductModelID", "Name">>],
     dbo |-> [BuildVersion |-> <<"SystemInformationID">>]]

\* The rows the columns query of inspect_table_structure returns.
Columns(schema, table_name) ==
    IF schema \in DOMAIN Catalog /\ table_name \in DOMAIN Catalog[schema]
    THEN Catalog[schema][table_name] ELSE <<>>

\* The calls a thread makes: a product request, the connection probe, and
\* inspections of tables that exist and that do not.
Calls ==
    {[op |-> "request"], [op |-> "verify"]} \cup
    {[op |-> "inspect", table_name |-> n, schema |-> sc] :
        n \in {"Product", "ProductModel", "Order"}, sc \in {"SalesLT", "dbo"}}

\* A thread at position pc of its call.
At(t, pc) == threads[t] # Idle /\ threads[t].pc = pc

\* get_engine, line 70: a thread starts a call and tests `_engine is None`.
get_engine_check(t, call) ==
    /\ threads[t] = Idle \/ At(t, "done")
    /\ steps < MaxSteps
    /\ steps' = steps + 1
    /\ threads' = [threads EXCEPT ![t] =
                     [call |-> call,
                      pc |-> IF IsNone(engine) THEN "create" ELSE "return",
                      got |-> None, open |-> FALSE, raised |-> "",
                      logged |-> FALSE, reraised |-> FALSE]]
    /\ UNCHANGED <<store, nextId, nextGuid, now, orderLines, last, sessions,
                   engine, engines, reachable, loggers>>

\* get_engine, lines 71-78: create_engine builds an engine (it does not
\* connect) and the global is assigned.
get_engine_create(t) ==
    /\ At(t, "create")
    /\ engines' = engines + 1
    /\ engine' = Some(engines + 1)
    /\ threads' = [threads EXCEPT ![t].pc = "return"]
    /\ UNCHANGED <<store, nextId, nextGuid, now, orderLines, steps, last,
                   sessions, reachable, loggers>>

\* get_engine, line 79: the global is read again and returned; the caller
\* binds a Session to the engine it got.
get_engine_return(t) ==
    /\ At(t, "return")
    /\ threads' = [threads EXCEPT ![t].pc = "session", ![t].got = engine]
    /\ UNCHANGED <<store, nextId, nextGuid, now, orderLines, steps, last,
                   sessions, engine, engines, reachable, loggers>>

\* get_session, lines 97-100: the session is opened and yielded.
get_session_yield(t) ==
    /\ At(t, "session") /\ threads[t].call.op = "request"
    /\ threads' = [threads EXCEPT ![t].pc = "handler", ![t].open = TRUE]
    /\ UNCHANGED <<store, nextId, nextGuid, now, orderLines, steps, last,
                   sessions, engine, engines, reachable, loggers>>

\* The handler of the request runs on the session.  Each of the five
\* handlers goes to the server (session.exec, session.get, session.commit)
\* and catches IntegrityError only: when the server does not answer, the
\* OperationalError leaves the handler.  Otherwise it returns or raises an
\* HTTPException.
handler(t, outcome) ==
    /\ At(t, "handler")
    /\ outcome \in IF reachable THEN {"", "HTTPException"}
                   ELSE {"OperationalError"}
    /\ threads' = [threads EXCEPT ![t].pc = "exit", ![t].raised = outcome]
    /\ UNCHANGED <<store, nextId, nextGuid, now, orderLines, steps, last,
                   sessions, engine, engines, reachable, loggers>>

\* get_session leaving the session open when the handler raised.
get_session_exit_leaks(t) ==
    LET s == threads[t]
        thrown == s.raised # "" /\ Caught(s.raised)
    IN
    /\ At(t, "exit")
    /\ threads' = [threads EXCEPT ![t].pc = "done",
                                  ![t].open = (s.raised # ""),
                                  ![t].logged = thrown,
                                  ![t].reraised = (s.raised # "")]
    /\ last' = ( IF s.raised = "" THEN
                     Response("request", 0, <<>>, 200, "OK", "", {}, None)
                 ELSE IF s.raised = "HTTPException" THEN
                     Response("request", 0, <<>>, 404, "NotFound", "", {}, None)
                 ELSE Unhandled("request", 0, <<>>) )
                @@ [raised |-> s.raised]
    /\ UNCHANGED <<store, nextId, nextGuid, now, orderLines, steps, sessions,
                   engine, engines, reachable, loggers>>

\* get_session, lines 101-105, when the request is over: an exception of
\* the handler is thrown into the generator, logged by the except clause
\* and raised again; then the finally clause runs and the with statement
\* closes the session.  An HTTPException becomes its response, any other
\* exception the 500 of the framework.
get_session_exit(t) ==
    LET s == threads[t]
        thrown == s.raised # "" /\ Caught(s.raised)
    IN
    /\ At(t, "exit")
    /\ threads' = [threads EXCEPT ![t].pc = "done",
                                  ![t].open = FALSE,
                                  ![t].logged = thrown,
                                  ![t].reraised = (s.raised # "")]
    /\ last' = ( IF s.raised = "" THEN
                     Response("request", 0, <<>>, 200, "OK", "", {}, None)
                 ELSE IF s.raised = "HTTPException" THEN
                     Response("request", 0, <<>>, 404, "NotFound", "", {}, None)
                 ELSE Unhandled("request", 0, <<>>) )
                @@ [raised |-> s.raised]
    /\ UNCHANGED <<store, nextId, nextGuid, now, orderLines, steps, sessions,
                   engine, engines, reachable, loggers>>

\* main.py, health_check: the body built from the probe's result.
health_check(success, error) ==
    [status |-> IF success THEN "healthy" ELSE "unhealthy",
     database |-> [status |-> IF success THEN "connected" ELSE "disconnected",
                   error |-> error]]

\* verify_database_connection after get_engine: the probe query in a
\* session; whatever `except Exception` catches becomes (False, message).
verify_database_connection(t) ==
    LET exc == IF reachable THEN "" ELSE "OperationalError"
        result ==
            IF exc = "" THEN <<TRUE, None>>
            ELSE <<FALSE, Some("Database connection failed: "
                                  \o ConnectionMessage)>>
        returns == exc = "" \/ Caught(exc)
    IN
    /\ At(t, "session") /\ threads[t].call.op = "verify"
    /\ threads' = [threads EXCEPT ![t].pc = "done",
                                  ![t].raised = IF returns THEN "" ELSE exc,
                                  ![t].logged = (exc # "" /\ returns)]
    /\ last' = IF returns
               THEN [op |-> "verify", raised |-> "", result |-> result,
                     answered |-> reachable,
                     health |-> health_check(result[1], result[2])]
               ELSE [op |-> "verify", raised |-> exc]
    /\ UNCHANGED <<store, nextId, nextGuid, now, orderLines, steps, sessions,
                   engine, engines, reachable, loggers>>

\* The ValueError message of inspect_table_structure without the table.
TableNotFound_unnamed(schema, table_name) == "Table not found"

\* The message of the ValueError inspect_table_structure raises.
TableNotFound(schema, table_name) ==
    "Table not found: " \o schema \o "." \o table_name

\* inspect_table_structure after get_engine: the columns query in a
\* session, ValueError when it returns no row, one entry per row
\* otherwise; whatever `except Exception` catches becomes the 'error'
\* entry.
inspect_table_structure(t) ==
    LET c == threads[t].call
        rows == Columns(c.schema, c.table_name)
        exc == IF ~reachable THEN "OperationalError"
               ELSE IF rows = <<>> THEN "ValueError" ELSE ""
        message == IF exc = "ValueError"
                   THEN TableNotFound(c.schema, c.table_name)
                   ELSE ConnectionMessage
        table_info ==
            IF exc = ""
            THEN [n \in {rows[k] : k \in DOMAIN rows} |->
                     [data_type |-> "nvarchar", is_nullable |-> FALSE,
                      is_primary_key |-> n = rows[1]]]
            ELSE [error |-> "Failed to retrieve table structure: "
                                \o message]
        returns == exc = "" \/ Caught(exc)
    IN
    /\ At(t, "session") /\ threads[t].call.op = "inspect"
    /\ threads' = [threads EXCEPT ![t].pc = "done",
                                  ![t].raised = IF returns THEN "" ELSE exc,
                                  ![t].logged = (exc # "" /\ returns)]
    /\ last' = IF returns
               THEN [op |-> "inspect", raised |-> "", call |-> c,
                     answered |-> reachable, table_info |-> table_info]
               ELSE [op |-> "inspect", raised |-> exc, call |-> c]
    /\ UNCHANGED <<store, nextId, nextGuid, now, orderLines, steps, sessions,
                   engine, engines, reachable, loggers>>

\* The server stops answering, or answers again.
server_switch ==
    /\ reachable' = ~reachable
    /\ UNCHANGED <<store, nextId, nextGuid, now, orderLines, steps, last,
                   sessions, engine, engines, loggers, threads>>

NextEngine ==
    \/ \E t \in Threads, call \in Calls : get_engine_check(t, call)
    \/ \E t \in Threads : get_engine_create(t)
    \/ \E t \in Threads : get_engine_return(t)
    \/ \E t \in Threads : get_session_yield(t)
    \/ \E t \in Threads, outcome \in ExceptionClasses \cup {""} :
          handler(t, outcome)
    \/ \E t \in Threads : get_session_exit(t)
    \/ \E t \in Threads : verify_database_connection(t)
    \/ \E t \in Threads : inspect_table_structure(t)
    \/ server_switch

SpecEngine == Init /\ [][NextEngine]_vars

---------------------------------------------------------------------------
(* Logging (logger.py): setup_logger over the registry of the logging      *)
(* module, where logging.getLogger(name) creates the logger of a name at   *)
(* its first call and returns that object at every later one.              *)

\* Logger names used in the repository.
LoggerNames == {"app.main", "database.utils"}

\* The log_file argument: absent, a file name, the empty string.
LogFiles == {None, Some("app.log"), Some("")}

\* The level argument: logging.INFO (the default) and logging.DEBUG.
Levels == {"INFO", "DEBUG"}

\* logging.getLogger(name): the logger of the registry, created without
\* handlers when the name is new.
getLogger(name) ==
    IF name \in DOMAIN loggers THEN loggers[name]
    ELSE [id |-> Cardinality(DOMAIN loggers) + 1, level |-> "NOTSET",
          handlers |-> <<>>, installed |-> <<>>]

\* The handlers setup_logger adds to a logger without handlers: the
\* console handler, and the rotating file handler `if log_file`.
NewHandlers(log_file) ==
    <<"console">> \o
        (IF ~IsNone(log_file) /\ Val(log_file) # "" THEN <<"file">>
         ELSE <<>>)

\* setup_logger without the early return for a logger that has handlers.
setup_logger_appends(name, log_file, level) ==
    LET logger == getLogger(name)
        handlers == logger.handlers \o NewHandlers(log_file)
        result == [logger EXCEPT !.level = level, !.handlers = handlers,
                       !.installed = IF logger.handlers = <<>>
                                     THEN handlers ELSE @]
    IN
    /\ steps < MaxSteps
    /\ steps' = steps + 1
    /\ loggers' = (name :> result) @@ loggers
    /\ last' = [op |-> "setup_logger", name |-> name, log_file |-> log_file,
                before |-> logger, logger |-> result,
                first |-> name \notin DOMAIN loggers]
    /\ UNCHANGED <<store, nextId, nextGuid, now, orderLines, sessions,
                   engine, engines, reachable, threads>>

\* setup_logger: the level is set, a logger that has handlers is returned
\* as it is, one without gets its handlers.
setup_logger(name, log_file, level) ==
    LET logger == getLogger(name)
        handlers == IF logger.handlers # <<>> THEN logger.handlers
                    ELSE NewHandlers(log_file)
        result == [logger EXCEPT !.level = level, !.handlers = handlers,
                       !.installed = IF logger.handlers = <<>>
                                     THEN handlers ELSE @]
    IN
    /\ steps < MaxSteps
    /\ steps' = steps + 1
    /\ loggers' = (name :> result) @@ loggers
    /\ last' = [op |-> "setup_logger", name |-> name, log_file |-> log_file,
                before |-> logger, logger |-> result,
                first |-> name \notin DOMAIN loggers]
    /\ UNCHANGED <<store, nextId, nextGuid, now, orderLines, sessions,
                   engine, engines, reachable, threads>>

NextLogger ==
    \E name \in LoggerNames, log_file \in LogFiles, level \in Levels :
        setup_logger(name, log_file, level)

SpecLogger == Init /\ [][NextLogger]_vars

---------------------------------------------------------------------------
(* Validation (SpecValidate).                                              *)

\* C1: parsing a create body accepts every Name of at most 100 characters
\* and every ProductNumber of at most 50, rejects with an error on that
\* field a Name of 101 or more and a ProductNumber of 51 or more, and
\* accepts the body when nothing else is wrong with it.
C1_NameAndNumberLimits ==
    last.op = "validate" =>
        LET p == last.payload
            r == last.create
            sent(f) == f \in DOMAIN p /\ ~IsNone(p[f])
        IN  /\ sent("Name") =>
                 ("Name" \in r.errors <=> Len(Val(p.Name)) >= 101)
            /\ sent("ProductNumber") =>
                 ("ProductNumber" \in r.errors
                      <=> Len(Val(p.ProductNumber)) >= 51)
            /\ (r.errors \cap {"Name", "ProductNumber"}) # {} => ~r.ok
            /\ ( /\ sent("Name") /\ Len(Val(p.Name)) <= 100
                 /\ sent("ProductNumber") /\ Len(Val(p.ProductNumber)) <= 50
                 /\ ~sent("Color") /\ ~sent("Size") )
               => /\ r.ok
                  /\ r.data.Name = p.Name
                  /\ r.data.ProductNumber = p.ProductNumber

\* C1 witness: a Name of 101 characters is the one field in error of a
\* body whose ProductNumber has exactly 50.
C1_Witness ==
    /\ last.op = "validate"
    /\ "Name" \in DOMAIN last.payload /\ ~IsNone(last.payload.Name)
    /\ Len(Val(last.payload.Name)) = 101
    /\ "ProductNumber" \in DOMAIN last.payload
    /\ ~IsNone(last.payload.ProductNumber)
    /\ Len(Val(last.payload.ProductNumber)) = 50
    /\ last.create.errors = {"Name"}
    /\ ~last.create.ok

\* C2: for every field an update body supplies, the update is rejected
\* exactly when a create body is rejected for that value (a Name over
\* 100 characters, a ProductNumber over 50, a Color over 30, a Size
\* outside the allowed set), and no absent field is validated.
C2_UpdateValidatesLikeCreate ==
    last.op = "validate" =>
        LET p == last.payload IN
        \A f \in {"Name", "ProductNumber", "Color", "Size"} :
            IF f \in DOMAIN p /\ ~IsNone(p[f])
            THEN (f \in last.create.errors)
                    <=> (f \in last.update.errors /\ ~last.update.ok)
            ELSE f \notin last.update.errors

---------------------------------------------------------------------------
(* Concurrent requests (SpecConc).                                         *)

\* C3: in every reachable state, whatever the interleaving of creates,
\* updates and deletes, no two stored products have the same Name and no
\* two have the same ProductNumber.
C3_UniqueNameAndNumber ==
    \A i, j \in DOMAIN store :
        i # j => /\ store[i].Name # store[j].Name
                 /\ store[i].ProductNumber # store[j].ProductNumber

\* C3 witness: two updates loaded their rows before either wrote; one has
\* committed its new Name and the other, asking for the same Name, was
\* answered with the conflict.
C3_Witness ==
    /\ last.op = "update" /\ last.kind = "DuplicateName"
    /\ last.payload = [Name |-> Some("Gizmo")]
    /\ \E i \in DOMAIN store : i # last.id /\ store[i].Name = Some("Gizmo")
    /\ last.id \in DOMAIN store /\ store[last.id].Name # Some("Gizmo")

---------------------------------------------------------------------------
(* The handlers (Spec).                                                    *)

\* C4: a create whose Name is that of a stored product (and whose
\* ProductNumber is new) yields 409 DuplicateName, a create whose
\* ProductNumber is that of a stored product (and whose Name is new) yields
\* 409 DuplicateNumber, and neither adds a product.
C4_CreateConflicts ==
    [][ (last'.op = "create" /\ last'.status # 422) =>
          LET p == last'.payload
              sameName == \E i \in DOMAIN store : store[i].Name = p.Name
              sameNumber ==
                  \E i \in DOMAIN store :
                      store[i].ProductNumber = p.ProductNumber
          IN  /\ (sameName /\ ~sameNumber) =>
                    /\ last'.status = 409 /\ last'.kind = "DuplicateName"
                    /\ store' = store
              /\ (sameNumber /\ ~sameName) =>
                    /\ last'.status = 409 /\ last'.kind = "DuplicateNumber"
                    /\ store' = store
      ]_vars

\* C5: an update of a stored product that gives it the Name of another
\* stored product yields 409 DuplicateName, one that gives it the
\* ProductNumber of another yields 409 DuplicateNumber, and the store is
\* left as it was, the target's ModifiedDate included.
C5_UpdateConflicts ==
    [][ (last'.op = "update" /\ last'.id \in DOMAIN store) =>
          LET p == last'.payload
              others == DOMAIN store \ {last'.id}
              takesName ==
                  /\ "Name" \in DOMAIN p
                  /\ \E i \in others : store[i].Name = p.Name
              takesNumber ==
                  /\ "ProductNumber" \in DOMAIN p
                  /\ \E i \in others : store[i].ProductNumber = p.ProductNumber
          IN  /\ takesName =>
                    /\ last'.status = 409 /\ last'.kind = "DuplicateName"
                    /\ store' = store
              /\ takesNumber =>
                    /\ last'.status = 409 /\ last'.kind = "DuplicateNumber"
                    /\ store' = store
      ]_vars

\* C6: a delete of a stored product without sales-order lines answers 204
\* and removes that product and no other; with at least one line it answers
\* 409 HasDependentOrders and leaves the store as it was.
C6_DeleteOutcome ==
    [][ (last'.op = "delete" /\ last'.id \in DOMAIN store) =>
          IF orderLines[last'.id] = 0
          THEN /\ last'.status = 204
               /\ DOMAIN store' = DOMAIN store \ {last'.id}
               /\ \A i \in DOMAIN store' : store'[i] = store[i]
          ELSE /\ last'.status = 409 /\ last'.kind = "HasDependentOrders"
               /\ store' = store
      ]_vars

\* C7: an update of a stored product with an empty body answers 200 and
\* changes nothing but that product's ModifiedDate.
C7_EmptyUpdate ==
    [][ ( /\ last'.op = "update" /\ last'.id \in DOMAIN store
          /\ DOMAIN last'.payload = {} ) =>
          /\ last'.status = 200
          /\ DOMAIN store' = DOMAIN store
          /\ \A i \in DOMAIN store :
                \A f \in RowFields :
                    (i # last'.id \/ f # "ModifiedDate")
                        => store'[i][f] = store[i][f]
      ]_vars

\* C8: after an update answered 200 every field of ProductUpdate the body
\* supplied has the body's value, every other field but ModifiedDate
\* (ProductID, rowguid, ThumbNailPhoto and ThumbnailPhotoFileName among
\* them) has its previous value, and no other product has changed.
C8_UpdateSetsSuppliedFieldsOnly ==
    [][ (last'.op = "update" /\ last'.status = 200) =>
          LET id == last'.id
              p == last'.payload
          IN  /\ id \in DOMAIN store
              /\ DOMAIN store' = DOMAIN store
              /\ \A f \in RowFields \ {"ModifiedDate"} :
                    store'[id][f] =
                        IF f \in DOMAIN p \cap ProductUpdateFields
                        THEN p[f] ELSE store[id][f]
              /\ \A i \in DOMAIN store \ {id} : store'[i] = store[i]
      ]_vars

\* C8 witness: an update answered 200 whose body set Weight and Color and
\* also carried a ThumbNailPhoto and a rowguid, which the product did not
\* take.
C8_Witness ==
    /\ last.op = "update" /\ last.status = 200
    /\ "Weight" \in DOMAIN last.payload
    /\ "rowguid" \in DOMAIN last.payload
    /\ store[last.id].Weight = last.payload.Weight
    /\ store[last.id].Color = last.payload.Color
    /\ store[last.id].ThumbNailPhoto = Some("bytes")
    /\ store[last.id].ThumbNailPhoto # last.payload.ThumbNailPhoto
    /\ store[last.id].rowguid # last.payload.rowguid

\* C9: a read of an id that is not stored answers 404 with the detail
\* "Product with ID <id> not found", a read of a stored id answers 200 with
\* that product, and neither changes the store.
C9_ReadOutcome ==
    [][ last'.op = "get" =>
          /\ store' = store
          /\ IF last'.id \notin DOMAIN store
             THEN /\ last'.status = 404 /\ last'.kind = "NotFound"
                  /\ last'.detail
                        = "Product with ID " \o ToString(last'.id) \o " not found"
             ELSE /\ last'.status = 200
                  /\ last'.body = Some(ProductRead(store[last'.id]))
      ]_vars

\* C10: an update or a delete of an id that is not stored answers 404
\* NotFound and writes nothing: the store is as it was.
C10_AbsentIdNotFound ==
    [][ (last'.op \in {"update", "delete"} /\ last'.id \notin DOMAIN store) =>
          /\ last'.status = 404 /\ last'.kind = "NotFound"
          /\ store' = store
          /\ orderLines' = orderLines
          /\ nextId' = nextId
      ]_vars

\* C10 witness: an update of an absent id was answered 404 while another
\* product is stored.
C10_Witness ==
    /\ last.op = "update" /\ last.status = 404
    /\ last.id \notin DOMAIN store
    /\ DOMAIN last.payload # {}
    /\ DOMAIN store # {}

\* C11: a list request with skip >= 0 and limit >= 0 answers 200 with
\* exactly the products at positions skip .. skip+limit-1 of the stored
\* products in ascending ProductID order (fewer when there are fewer, none
\* when skip is past the end), and leaves the store as it was.
C11_ListPage ==
    [][ last'.op = "list" =>
          LET skip == last'.payload.skip
              limit == last'.payload.limit
              n == Cardinality(DOMAIN store)
              rest == IF n > skip THEN n - skip ELSE 0
              len == IF rest < limit THEN rest ELSE limit
              \* the id with exactly k - 1 smaller ids stored
              at(k) == CHOOSE i \in DOMAIN store :
                          Cardinality({j \in DOMAIN store : j < i}) = k - 1
          IN  /\ store' = store
              /\ last'.status = 200
              /\ ~IsNone(last'.body)
              /\ Len(Val(last'.body)) = len
              /\ \A k \in 1..len :
                    Val(last'.body)[k] = ProductRead(store[at(skip + k)])
      ]_vars

\* C12: a product keeps its ProductID and its rowguid from one state to
\* the next for as long as it is stored, whatever the request (updates
\* whose body carries a rowguid included), and its ProductID is the key it
\* is stored under.
C12_IdentityAndRowguidKept ==
    [][ /\ \A i \in DOMAIN store \cap DOMAIN store' :
              /\ store'[i].ProductID = store[i].ProductID
              /\ store'[i].rowguid = store[i].rowguid
        /\ \A i \in DOMAIN store' : store'[i].ProductID = i
      ]_vars

\* C12 witness: a product created at time 0 was updated later by a body
\* that carried a rowguid, and still has the rowguid it was created with.
C12_Witness ==
    /\ last.op = "update" /\ last.id \in DOMAIN store
    /\ "rowguid" \in DOMAIN last.payload
    /\ store[last.id].Color = last.payload.Color
    /\ store[last.id].ModifiedDate > 0
    /\ store[last.id].ProductID = last.id
    /\ store[last.id].rowguid \in 1..nextGuid
    /\ store[last.id].rowguid # last.payload.rowguid

\* C13: a create answered 201 has added one product and changed no other;
\* the entity returned is the stored row (as ProductRead); its ProductID is
\* the next identity value and its rowguid a token no stored product has;
\* its ModifiedDate is the time of the request; every field of ProductBase
\* has the payload's value (Weight: the payload's value brought to a
\* multiple of 0.01 at most 0.005 away), absent fields being null; and a
\* ProductID, rowguid or ModifiedDate the client sent is not the one stored.
C13_CreateReturnsStoredEntity ==
    [][ (last'.op = "create" /\ last'.status = 201) =>
          LET id == last'.id
              p == last'.payload
              row == store'[id]
              w == Get(p, "Weight")
          IN  /\ id = nextId /\ id \notin DOMAIN store
              /\ DOMAIN store' = DOMAIN store \cup {id}
              /\ \A i \in DOMAIN store :
                    /\ store'[i] = store[i]
                    /\ store[i].ProductID # row.ProductID
                    /\ store[i].rowguid # row.rowguid
              /\ row.ProductID = id
              /\ row.ModifiedDate = now'
              /\ \A f \in ProductBaseFields \ {"Weight"} : row[f] = Get(p, f)
              /\ IF IsNone(w) THEN IsNone(row.Weight)
                 ELSE /\ ~IsNone(row.Weight)
                      /\ Val(row.Weight) % 10 = 0
                      /\ Val(row.Weight) - Val(w) \in -5..5
              /\ \A f \in SystemFields \cap DOMAIN p : row[f] # p[f]
              /\ last'.body = Some([f \in ProductReadFields |-> row[f]])
      ]_vars

\* C13 witness: with another product stored, a create whose body carried a
\* ProductID, a rowguid and a ModifiedDate was answered 201 with a product
\* that has none of the three and whose Weight was rounded.
C13_Witness ==
    /\ last.op = "create" /\ last.status = 201
    /\ SystemFields \subseteq DOMAIN last.payload
    /\ Cardinality(DOMAIN store) >= 2
    /\ \A f \in SystemFields : store[last.id][f] # last.payload[f]
    /\ store[last.id].Weight # last.payload.Weight
    /\ Val(last.body).rowguid = store[last.id].rowguid

\* C14: with requests handled one after the other and a clock that never
\* goes back, a create answered 201 and an update answered 200 leave the
\* product's ModifiedDate at the time of the request; every step that
\* adds or changes a product leaves its ModifiedDate at the time of that
\* step; and no step lowers the ModifiedDate of a stored product or leaves
\* one later than the clock.
C14_ModifiedDateMonotonic ==
    [][ /\ now' >= now
        /\ (last'.op = "create" /\ last'.status = 201)
              => store'[last'.id].ModifiedDate = now'
        /\ (last'.op = "update" /\ last'.status = 200)
              => store'[last'.id].ModifiedDate = now'
        /\ \A i \in DOMAIN store' :
              /\ store'[i].ModifiedDate <= now'
              /\ (i \notin DOMAIN store \/ store'[i] # store[i])
                    => store'[i].ModifiedDate = now'
              /\ i \in DOMAIN store
                    => store'[i].ModifiedDate >= store[i].ModifiedDate
      ]_vars

\* C14 witness: an update answered 200 has left the product with a later
\* ModifiedDate than a product created after it.
C14_Witness ==
    /\ last.op = "update" /\ last.status = 200
    /\ store[last.id].ModifiedDate = now
    /\ \E j \in DOMAIN store :
          j > last.id /\ store[j].ModifiedDate < store[last.id].ModifiedDate

\* C15: a create of a valid body, or an update of a stored product, whose
\* row takes no stored Name or ProductNumber but breaks another constraint
\* of the table (a required column set to null, a ProductModelID or a
\* ProductCategoryID that references no row) is answered 500 with the
\* detail "An unexpected database constraint violation occurred." whatever
\* the body and the constraint, and leaves the store as it was; a delete
\* classifies every such message as 500 with the detail "An unexpected
\* error occurred while deleting the product"; and an unknown constraint
\* is reported only with 500, an unchanged store, and such a constraint
\* broken.
C15_UnknownConstraintIsInternalError ==
    [][ LET p == last'.payload
            id == last'.id
            has(f) == f \in DOMAIN p /\ ~IsNone(p[f])
            nulled == \E f \in RequiredFields : f \in DOMAIN p /\ IsNone(p[f])
            dangling ==
                \/ has("ProductModelID")
                      /\ Val(p.ProductModelID) \notin ProductModelIDs
                \/ has("ProductCategoryID")
                      /\ Val(p.ProductCategoryID) \notin ProductCategoryIDs
            taken(others) ==
                \/ has("Name") /\ \E i \in others : store[i].Name = p.Name
                \/ has("ProductNumber")
                      /\ \E i \in others :
                            store[i].ProductNumber = p.ProductNumber
            unknown ==
                \/ /\ last'.op = "create" /\ last'.status # 422
                   /\ dangling /\ ~taken(DOMAIN store)
                \/ /\ last'.op = "update" /\ id \in DOMAIN store
                   /\ IsNone(store[id].Size) \/ Val(store[id].Size) \in ProductSize
                   /\ nulled \/ dangling
                   /\ ~taken(DOMAIN store \ {id})
            messages ==
                {NotNullMessage(f) : f \in RequiredFields} \cup
                {ForeignKeyMessage("FK_Product_ProductModel_ProductModelID"),
                 ForeignKeyMessage("FK_Product_ProductCategory_ProductCategoryID")}
        IN  /\ unknown =>
                  /\ last'.status = 500
                  /\ last'.detail
                        = "An unexpected database constraint violation occurred."
                  /\ store' = store /\ orderLines' = orderLines
                  /\ nextId' = nextId
            /\ last'.kind = "UnknownConstraintViolation" =>
                  /\ last'.status = 500 /\ store' = store
                  /\ last'.op \in {"create", "update"} => nulled \/ dangling
            /\ last'.op = "delete" =>
                  \A msg \in messages :
                      /\ ClassifyDelete(msg).status = 500
                      /\ ClassifyDelete(msg).detail
                            = "An unexpected error occurred while deleting the product"
      ]_vars

\* C15 witness: with a product stored, a create whose ProductCategoryID
\* references no category was answered 500 with the generic detail and
\* added nothing.
C15_Witness ==
    /\ last.op = "create" /\ last.status = 500
    /\ last.payload.ProductCategoryID = Some(7)
    /\ last.kind = "UnknownConstraintViolation"
    /\ last.detail = "An unexpected database constraint violation occurred."
    /\ DOMAIN store # {}
    /\ \A i \in DOMAIN store : store[i].Name # last.payload.Name

\* C16: a create, or an update of a stored product, whose body breaks a
\* validation rule (a Name over 100 characters, a ProductNumber over 50, a
\* Color over 30, a Size outside the allowed set, and for a create a
\* required field missing or null) is answered 422 and leaves the store as
\* it was; and every response 409 leaves the store as it was.
C16_ValidationBeforeWrite ==
    [][ LET p == last'.payload
            has(f) == f \in DOMAIN p /\ ~IsNone(p[f])
            invalid ==
                \/ has("Name") /\ Len(Val(p.Name)) > 100
                \/ has("ProductNumber") /\ Len(Val(p.ProductNumber)) > 50
                \/ has("Color") /\ Len(Val(p.Color)) > 30
                \/ has("Size") /\ Val(p.Size) \notin ProductSize
                \/ last'.op = "create" /\ \E f \in RequiredFields : ~has(f)
            addressed ==
                \/ last'.op = "create"
                \/ last'.op = "update" /\ last'.id \in DOMAIN store
        IN  /\ (addressed /\ invalid) =>
                  /\ last'.status = 422
                  /\ store' = store /\ nextId' = nextId
            /\ last'.status = 409 => (store' = store /\ nextId' = nextId)
      ]_vars

\* C17: after every step each stored product's Size is null or a member
\* of ProductSize; and a create, or an update of a stored product, whose
\* body supplies any other Size is answered 422 and leaves the store as it
\* was.
C17_SizeInEnumeratedSet ==
    [][ LET p == last'.payload
            badSize ==
                /\ "Size" \in DOMAIN p /\ ~IsNone(p.Size)
                /\ Val(p.Size) \notin ProductSize
            addressed ==
                \/ last'.op = "create"
                \/ last'.op = "update" /\ last'.id \in DOMAIN store
        IN  /\ \A i \in DOMAIN store' :
                  IsNone(store'[i].Size) \/ Val(store'[i].Size) \in ProductSize
            /\ (addressed /\ badSize) =>
                  (last'.status = 422 /\ store' = store)
      ]_vars

\* C18: after a create answered 201 or an update answered 200 whose body
\* supplies a Weight, the stored Weight is a multiple of 0.01 at most 0.005
\* away from the one supplied; no 422 names Weight as a field in error; and
\* after every step each stored Weight is null or a multiple of 0.01.
C18_WeightRounded ==
    [][ LET p == last'.payload
            written ==
                \/ last'.op = "create" /\ last'.status = 201
                \/ last'.op = "update" /\ last'.status = 200
        IN  /\ ( /\ written
                  /\ "Weight" \in DOMAIN p /\ ~IsNone(p.Weight) ) =>
                  LET w == store'[last'.id].Weight
                  IN  /\ ~IsNone(w)
                      /\ Val(w) % 10 = 0
                      /\ Val(w) - Val(p.Weight) \in -5..5
            /\ "Weight" \notin last'.errors
            /\ \A i \in DOMAIN store' :
                  IsNone(store'[i].Weight) \/ Val(store'[i].Weight) % 10 = 0
      ]_vars

\* C20: a create answered 201 stores the ThumbNailPhoto of its body; the
\* answer to a get or a list is the one the same request gets from the
\* store with every ThumbNailPhoto erased (the entities are those of the
\* erased rows, and whether the request succeeds is decided by the id, the
\* limit and the stored Sizes alone); and the entity a create or an update
\* returns has no ThumbNailPhoto field and no text field holding a stored
\* photo.
C20_ThumbNailPhotoNotDisclosed ==
    [][ LET id == last'.id
            p == last'.payload
            Erased(row) == [row EXCEPT !.ThumbNailPhoto = None]
            sized(i) ==
                IsNone(store[i].Size) \/ Val(store[i].Size) \in ProductSize
            photos == {store'[i].ThumbNailPhoto : i \in DOMAIN store'} \ {None}
            hides(r) ==
                /\ "ThumbNailPhoto" \notin DOMAIN r
                /\ \A f \in {"Name", "ProductNumber", "Color", "Size",
                            "ThumbnailPhotoFileName"} : r[f] \notin photos
        IN  /\ (last'.op = "create" /\ last'.status = 201) =>
                  store'[id].ThumbNailPhoto = Get(p, "ThumbNailPhoto")
            /\ last'.op = "get" =>
                  /\ last'.status = 404 <=> id \notin DOMAIN store
                  /\ last'.status = 200 <=> (id \in DOMAIN store /\ sized(id))
                  /\ last'.status = 200 =>
                        last'.body = Some(ProductRead(Erased(store[id])))
                  /\ last'.status # 200 => IsNone(last'.body)
            /\ last'.op = "list" =>
                  /\ last'.status = 200 =>
                        \A k \in DOMAIN Val(last'.body) :
                            LET r == Val(last'.body)[k] IN
                            /\ r.ProductID \in DOMAIN store
                            /\ r = ProductRead(Erased(store[r.ProductID]))
                  /\ last'.status # 200 =>
                        /\ IsNone(last'.body)
                        /\ p.limit < 1 \/ \E i \in DOMAIN store : ~sized(i)
            /\ (last'.op \in {"create", "update"} /\ ~IsNone(last'.body)) =>
                  hides(Val(last'.body))
      ]_vars

\* C20 witness: a get was answered 200 with a product whose stored
\* ThumbNailPhoto is not null; the entity has the file name of the photo
\* and no ThumbNailPhoto field.
C20_Witness ==
    /\ last.op = "get" /\ last.status = 200
    /\ store[last.id].ThumbNailPhoto = Some("bytes")
    /\ "ThumbNailPhoto" \notin DOMAIN Val(last.body)
    /\ Val(last.body).ThumbnailPhotoFileName = Some("widget.jpg")

---------------------------------------------------------------------------
(* The Weight validator (SpecWeight).                                      *)

\* C19: the Weight validator never fails, applying it to its own result
\* gives that result again, and it maps no weight to no weight.
C19_NormalizeIdempotent ==
    last.op = "normalize" =>
        /\ last.once.ok /\ last.twice.ok
        /\ last.twice.value = last.once.value
        /\ IsNone(last.weight) <=> IsNone(last.once.value)

\* C19 witness: a negative weight half-way between two multiples of 0.01
\* was moved by the validator, and the second application left the result
\* where it was.
C19_Witness ==
    /\ last.op = "normalize"
    /\ ~IsNone(last.weight)
    /\ Val(last.weight) < 0 /\ Val(last.weight) % 10 = 5
    /\ last.once.value # last.weight
    /\ last.twice.value = last.once.value

\* C29: a write answered DuplicateName broke the uniqueness of Name (another
\* stored product has the Name written), and a write answered
\* DuplicateNumber broke the uniqueness of ProductNumber, whatever the
\* values supplied.
C29_ConflictNamesTheConstraint ==
    [][ (last'.op \in {"create", "update"} /\ last'.status = 409) =>
          LET p == last'.payload
              others == DOMAIN store \ {last'.id}
              name == IF "Name" \in DOMAIN p THEN p.Name
                      ELSE store[last'.id].Name
              number == IF "ProductNumber" \in DOMAIN p THEN p.ProductNumber
                        ELSE store[last'.id].ProductNumber
          IN  /\ last'.kind = "DuplicateName" =>
                    \E i \in others : store[i].Name = name
              /\ last'.kind = "DuplicateNumber" =>
                    \E i \in others : store[i].ProductNumber = number
      ]_vars

\* C30: every stored product has a Name, a ProductNumber, a StandardCost,
\* a ListPrice and a SellStartDate; an update that carries an explicit null
\* for one of them does not succeed and leaves the store as it was.
C30_RequiredFieldsKept ==
    [][ /\ \A i \in DOMAIN store', f \in RequiredFields :
              ~IsNone(store'[i][f])
        /\ ( /\ last'.op = "update"
             /\ \E f \in RequiredFields \cap DOMAIN last'.payload :
                   IsNone(last'.payload[f]) ) =>
              /\ store' = store
              /\ last'.status # 200
      ]_vars

\* C30 witness: an update of a stored product with a null Name was answered
\* 500 and the product still has its Name.
C30_Witness ==
    /\ last.op = "update" /\ last.status = 500
    /\ last.payload = [Name |-> None]
    /\ last.id \in DOMAIN store
    /\ ~IsNone(store[last.id].Name)

---------------------------------------------------------------------------
(* Concurrent requests (SpecConc).                                         *)

\* C22: of two creates that share their Name or their ProductNumber, the
\* one the store takes second, right after the successful one, is answered
\* 409 and adds nothing,
\* and the conflict is the one of the constraint it broke: DuplicateName
\* when only its Name is taken, DuplicateNumber when only its
\* ProductNumber is.
C22_OneCreateWins ==
    [][ ( /\ last.op = "create" /\ last.status = 201
          /\ last' # last
          /\ last'.op = "create" /\ last'.status # 422
          /\ \/ last'.payload.Name = last.payload.Name
             \/ last'.payload.ProductNumber = last.payload.ProductNumber ) =>
          LET p == last'.payload
              takenName == \E i \in DOMAIN store : store[i].Name = p.Name
              takenNumber ==
                  \E i \in DOMAIN store :
                      store[i].ProductNumber = p.ProductNumber
          IN  /\ last'.status = 409
              /\ store' = store
              /\ (takenName /\ ~takenNumber) => last'.kind = "DuplicateName"
              /\ (takenNumber /\ ~takenName) =>
                    last'.kind = "DuplicateNumber"
      ]_vars

\* C23: an update or a delete that is committed after a concurrent delete
\* removed its product is answered with success or NotFound, never with an
\* internal error, and the product stays removed.
C23_RemovedUnderRequest ==
    [][ \A w \in Workers :
          ( /\ sessions[w] # Idle /\ sessions'[w] = Idle
            /\ sessions[w].id \notin DOMAIN store ) =>
              /\ last'.status \in {200, 204, 404}
              /\ sessions[w].id \notin DOMAIN store'
      ]_vars

---------------------------------------------------------------------------
(* The engine, the session and the database utilities (SpecEngine).        *)

\* C21: a product request handled while the store is unreachable is
\* answered as service unavailable (503), not by the generic internal
\* error.
C21_UnreachableIsServiceUnavailable ==
    (last.op = "request" /\ last.raised = "OperationalError") =>
        last.status = 503

C26_VerifyNeverRaises ==
    last.op = "verify" =>
        /\ last.raised = ""
        /\ last.result[1] = last.answered
        /\ last.result[1] <=> IsNone(last.result[2])
        /\ ~last.result[1] => Len(Val(last.result[2])) > 0

\* C26 witness: the probe failed; the call returned False with a message
\* and the health check reports the database disconnected.
C26_Witness ==
    /\ last.op = "verify" /\ last.raised = ""
    /\ ~last.result[1]
    /\ Contains(Val(last.result[2]), "Database connection failed: ")
    /\ last.health.status = "unhealthy"

\* C27 as stated: inspect_table_structure never raises; for a table that
\* is not in the schema it returns the single key 'error' with the message
\* 'Table not found: <schema>.<table>', and for an existing table one
\* entry per column and no 'error' key.
C27_InspectAsStated ==
    last.op = "inspect" =>
        LET c == last.call
            rows == Columns(c.schema, c.table_name)
        IN
        /\ last.raised = ""
        /\ rows = <<>> =>
              /\ DOMAIN last.table_info = {"error"}
              /\ Contains(last.table_info.error,
                          "Table not found: " \o c.schema \o "."
                              \o c.table_name)
        /\ rows # <<>> =>
              /\ DOMAIN last.table_info = {rows[k] : k \in DOMAIN rows}
              /\ "error" \notin DOMAIN last.table_info

\* C27: inspect_table_structure never raises.  When the server answers the
\* columns query: for a table that is not in the schema it returns the
\* single key 'error' with the message 'Table not found:
\* <schema>.<table>', and for an existing table one entry per column and
\* no 'error' key.  When the server does not answer it returns the single
\* key 'error' whatever the table.
C27_InspectNeverRaises ==
    last.op = "inspect" =>
        LET c == last.call
            rows == Columns(c.schema, c.table_name)
        IN
        /\ last.raised = ""
        /\ (last.answered /\ rows = <<>>) =>
              /\ DOMAIN last.table_info = {"error"}
              /\ Contains(last.table_info.error,
                          "Table not found: " \o c.schema \o "."
                              \o c.table_name)
        /\ (last.answered /\ rows # <<>>) =>
              /\ DOMAIN last.table_info = {rows[k] : k \in DOMAIN rows}
              /\ "error" \notin DOMAIN last.table_info
        /\ ~last.answered => DOMAIN last.table_info = {"error"}

\* C27 witness: the table Product was asked for in schema dbo, where it is
\* not; the answer is the 'error' entry alone.
C27_Witness ==
    /\ last.op = "inspect" /\ last.raised = ""
    /\ last.answered
    /\ last.call.table_name = "Product" /\ last.call.schema = "dbo"
    /\ DOMAIN last.table_info = {"error"}
    /\ Contains(last.table_info.error, "Table not found: dbo.Product")

\* C28: a request that is over has no open session, whether its handler
\* returned or raised; an exception of the handler was logged by
\* get_session and raised again, and it decided the response.  A session
\* is open only while its handler runs or get_session is being left.
C28_SessionClosed ==
    \A t \in Threads :
        (threads[t] # Idle /\ threads[t].call.op = "request") =>
            LET s == threads[t] IN
            /\ s.open => s.pc \in {"handler", "exit"}
            /\ s.pc = "done" =>
                  /\ ~s.open
                  /\ s.raised # "" => (s.logged /\ s.reraised)
                  /\ s.raised = "" => (~s.logged /\ ~s.reraised)

\* C28 witness: a handler raised on a session; the request is over, the
\* session closed, the exception logged and answered by the error response.
C28_Witness ==
    \E t \in Threads :
        /\ At(t, "done") /\ threads[t].call.op = "request"
        /\ threads[t].raised = "OperationalError"
        /\ ~threads[t].open /\ threads[t].logged /\ threads[t].reraised
        /\ last.op = "request" /\ last.status = 500


---------------------------------------------------------------------------
(* Logging (SpecLogger).                                                   *)

\* C25: the first call of setup_logger for a name installs exactly one
\* console handler, and exactly one rotating file handler besides when a
\* log file name is given; a later call with the same name returns the same
\* logger object and adds no handler, so every logger has the handlers its
\* first call installed.
C25_SetupLoggerIdempotent ==
    /\ \A name \in DOMAIN loggers :
          /\ loggers[name].handlers = loggers[name].installed
          /\ loggers[name].handlers \in {<<"console">>, <<"console", "file">>}
    /\ \A name \in DOMAIN loggers, other \in DOMAIN loggers :
          loggers[name].id = loggers[other].id => name = other
    /\ last.op = "setup_logger" =>
          /\ last.logger = loggers[last.name]
          /\ last.logger.id = last.before.id
          /\ last.first =>
                last.logger.handlers =
                    IF last.log_file \in {None, Some("")}
                    THEN <<"console">> ELSE <<"console", "file">>
          /\ ~last.first => last.logger.handlers = last.before.handlers

\* C25 witness: a logger set up with the console handler alone was set up
\* again, now with a log file; it is the same logger and still has the
\* console handler alone.
C25_Witness ==
    /\ last.op = "setup_logger" /\ ~last.first
    /\ last.log_file = Some("app.log")
    /\ last.before.handlers = <<"console">>
    /\ last.logger.handlers = <<"console">>
    /\ last.logger.id = last.before.id


=============================================================================
